---------------------------- MODULE Spec2Model ----------------------------
(***************************************************************************)
(* A state-machine model of src/Minimal/main.cpp: the render loop of       *)
(* GlfwApp::run, the controller handling of RiftApp::update, the freeze /  *)
(* stabilisation / per-eye dispatch of RiftApp::draw, and the hand-position*)
(* ring buffer (class Buffer) used by ExampleApp::renderScene.             *)
(*                                                                         *)
(* Matrices are modelled by what distinguishes them: a projection by the   *)
(* eye it was computed for, an eye pose by the eye and the frame in which  *)
(* it was sampled (rotation and translation part separately), a hand       *)
(* position by the ordinal of the tracking sample it came from.            *)
(***************************************************************************)
EXTENDS Integers, Sequences, FiniteSets, TLC

(***************************************************************************)
(* Program constants                                                       *)
(***************************************************************************)
\* vec3 positions[30]; and the literal 30 in Buffer::push / Buffer::pop
BufferCapacity == 30
\* tracking_lag < 29
TrackingLagMax == 29
\* render_lag < 10
RenderLagMax == 10
\* trigger value < 0.01f, in thousandths
TriggerReleaseBelow == 10
\* trigger value > 0.1f, in thousandths
TriggerPressAbove == 100

(***************************************************************************)
(* Bounds of the model                                                     *)
(***************************************************************************)
\* pushes made in the stand-alone ring-buffer specification
MaxPushes == 40

Lags == 0..TrackingLagMax

(***************************************************************************)
(* class Buffer                                                            *)
(*   positions[i] = 0 stands for a slot never written (indeterminate);     *)
(*   a written slot holds the ordinal (>= 1) of the sample pushed into it. *)
(***************************************************************************)
NewBuffer ==
    [positions |-> [i \in 0..(BufferCapacity - 1) |-> 0],
     read |-> 0, write |-> 0, num |-> 0]

push(b, position) ==
    [b EXCEPT !.positions = [b.positions EXCEPT ![b.write] = position],
              !.write = (b.write + 1) % BufferCapacity,
              !.num = IF b.num < BufferCapacity THEN b.num + 1 ELSE b.num]

\* the element the ring branch of pop reads
popIndex(b, lag) == (b.read - lag + BufferCapacity) % BufferCapacity

popNoFillCheck(b, lag) ==
    [buf |-> [b EXCEPT !.read = (b.read + 1) % BufferCapacity],
     ret |-> b.positions[popIndex(b, lag)]]

\* pop returns the value and leaves the buffer with the cursor advanced
pop(b, lag) ==
    IF b.num = BufferCapacity
    THEN [buf |-> [b EXCEPT !.read = (b.read + 1) % BufferCapacity],
          ret |-> b.positions[popIndex(b, lag)]]
    ELSE [buf |-> b, ret |-> b.positions[0]]


(***************************************************************************)
(* State                                                                   *)
(***************************************************************************)
VARIABLES
    \* GlfwApp::run: position in the loop, frame counter, window-should-close flag
    pc, frame, shouldClose,
    \* file-scope variables (main.cpp 483-491)
    button_A, button_B, button_X, isPressed, isTouched, set_Cubesize,
    tracking_lag, render_lag, superRotation,
    \* RiftApp members
    eyeProjections, projection_old,
    left_pos_old, left_pos_new, right_pos_old, right_pos_new,
    iod, iod_origin, set_iod, count, hmdToEyeX,
    \* Scene::cubeSize and ExampleApp::buffer
    cubeSize, buffer,
    \* RiftApp::_renderTargetSize, _mirrorSize, _sceneLayer.Viewport, and what
    \* ovr_GetFovTextureSize reports for each eye
    renderTargetSize, mirrorSize, sceneLayerViewport, fovTextureSize,
    \* what the device calls of initGl returned, and the completeness of the
    \* framebuffer object it set up
    startup,
    \* what the environment has seen: tracking samples taken for the hand,
    \* the renderScene calls and the compositor submission of the latest draw,
    \* the latest Buffer call
    handSamples, calls, submitted, lastCall,
    \* observers of the input history (they never influence the program)
    btnTrack, trigTrack, latch, frz, upd, reloaded,
    \* the family of input sequences the environment plays in this run
    scenario

progVars ==
    <<pc, frame, shouldClose, button_A, button_B, button_X, isPressed, isTouched,
      set_Cubesize, tracking_lag, render_lag, superRotation, eyeProjections,
      projection_old, left_pos_old, left_pos_new, right_pos_old, right_pos_new,
      iod, iod_origin, set_iod, count, hmdToEyeX, cubeSize, buffer>>

layoutVars == <<renderTargetSize, mirrorSize, sceneLayerViewport, fovTextureSize>>

obsVars ==
    <<handSamples, calls, submitted, lastCall, btnTrack, trigTrack, latch, frz,
      upd, reloaded, scenario>>

vars == <<progVars, layoutVars, startup, obsVars>>

Eyes == <<"Left", "Right">>
Hands == {"Left", "Right"}
Triggers == {"IndexLeft", "IndexRight", "HandLeft", "HandRight"}
MappedButtons == {"A", "B", "X", "Y"}

\* the value ovrInputState holds for one trigger, in thousandths
Level(in, t) ==
    CASE t = "IndexLeft"  -> in.IndexTrigger["Left"]
      [] t = "IndexRight" -> in.IndexTrigger["Right"]
      [] t = "HandLeft"   -> in.HandTrigger["Left"]
      [] t = "HandRight"  -> in.HandTrigger["Right"]

(***************************************************************************)
(* RiftApp::update, the controller block (main.cpp 647-745).               *)
(* Each stage maps the values it reads to the values it leaves.            *)
(***************************************************************************)
\* 648-651: all four triggers below 0.01
AllTriggersReleased(in) ==
    /\ in.IndexTrigger["Left"] < TriggerReleaseBelow
    /\ in.IndexTrigger["Right"] < TriggerReleaseBelow
    /\ in.HandTrigger["Left"] < TriggerReleaseBelow
    /\ in.HandTrigger["Right"] < TriggerReleaseBelow

TriggerStageNoLatch(g, in) ==
    LET s0 == [g EXCEPT !.isTouched = IF AllTriggersReleased(in) THEN FALSE ELSE @,
                        !.by = "none"]
        s1 == IF in.IndexTrigger["Left"] > TriggerPressAbove /\ s0.tracking_lag > 0
                 /\ ~s0.isTouched
              THEN [s0 EXCEPT !.tracking_lag = @ - 1, !.by = "IndexLeft"]
              ELSE s0
        s2 == IF in.IndexTrigger["Right"] > TriggerPressAbove
                 /\ s1.tracking_lag < TrackingLagMax /\ ~s1.isTouched
              THEN [s1 EXCEPT !.tracking_lag = @ + 1, !.by = "IndexRight"]
              ELSE s1
        s3 == IF in.HandTrigger["Left"] > TriggerPressAbove /\ s2.render_lag > 0
                 /\ ~s2.isTouched
              THEN [s2 EXCEPT !.render_lag = @ - 1, !.by = "HandLeft"]
              ELSE s2
        s4 == IF in.HandTrigger["Right"] > TriggerPressAbove
                 /\ s3.render_lag < RenderLagMax /\ ~s3.isTouched
              THEN [s3 EXCEPT !.render_lag = @ + 1, !.by = "HandRight"]
              ELSE s3
    IN  s4

TriggerStageNoClamp(g, in) ==
    LET s0 == [g EXCEPT !.isTouched = IF AllTriggersReleased(in) THEN FALSE ELSE @,
                        !.by = "none"]
        s1 == IF in.IndexTrigger["Left"] > TriggerPressAbove /\ s0.tracking_lag > 0
                 /\ ~s0.isTouched
              THEN [s0 EXCEPT !.isTouched = TRUE, !.tracking_lag = @ - 1,
                              !.by = "IndexLeft"]
              ELSE s0
        s2 == IF in.IndexTrigger["Right"] > TriggerPressAbove /\ ~s1.isTouched
              THEN [s1 EXCEPT !.isTouched = TRUE, !.tracking_lag = @ + 1,
                              !.by = "IndexRight"]
              ELSE s1
        s3 == IF in.HandTrigger["Left"] > TriggerPressAbove /\ s2.render_lag > 0
                 /\ ~s2.isTouched
              THEN [s2 EXCEPT !.isTouched = TRUE, !.render_lag = @ - 1,
                              !.by = "HandLeft"]
              ELSE s2
        s4 == IF in.HandTrigger["Right"] > TriggerPressAbove
                 /\ s3.render_lag < RenderLagMax /\ ~s3.isTouched
              THEN [s3 EXCEPT !.isTouched = TRUE, !.render_lag = @ + 1,
                              !.by = "HandRight"]
              ELSE s3
    IN  s4

\* 648-675. g = [isTouched, tracking_lag, render_lag, by]; by names the trigger
\* whose branch adjusted a lag value in this call ("none" when no branch did).
TriggerStage(g, in) ==
    LET s0 == [g EXCEPT !.isTouched = IF AllTriggersReleased(in) THEN FALSE ELSE @,
                        !.by = "none"]
        s1 == IF in.IndexTrigger["Left"] > TriggerPressAbove /\ s0.tracking_lag > 0
                 /\ ~s0.isTouched
              THEN [s0 EXCEPT !.isTouched = TRUE, !.tracking_lag = @ - 1,
                              !.by = "IndexLeft"]
              ELSE s0
        s2 == IF in.IndexTrigger["Right"] > TriggerPressAbove
                 /\ s1.tracking_lag < TrackingLagMax /\ ~s1.isTouched
              THEN [s1 EXCEPT !.isTouched = TRUE, !.tracking_lag = @ + 1,
                              !.by = "IndexRight"]
              ELSE s1
        s3 == IF in.HandTrigger["Left"] > TriggerPressAbove /\ s2.render_lag > 0
                 /\ ~s2.isTouched
              THEN [s2 EXCEPT !.isTouched = TRUE, !.render_lag = @ - 1,
                              !.by = "HandLeft"]
              ELSE s2
        s4 == IF in.HandTrigger["Right"] > TriggerPressAbove
                 /\ s3.render_lag < RenderLagMax /\ ~s3.isTouched
              THEN [s3 EXCEPT !.isTouched = TRUE, !.render_lag = @ + 1,
                              !.by = "HandRight"]
              ELSE s3
    IN  s4

\* 678-688: the interocular-distance target. `Buttons && ovrButton_RThumb` is a
\* logical and of two integers: it is true whenever any button bit is set.
IodTarget(cur, in) ==
    IF in.ThumbstickX["Right"] < 0 THEN 2
    ELSE IF in.ThumbstickX["Right"] > 0 THEN 3
    ELSE IF in.Buttons # {} THEN 4
    ELSE cur

\* 691-702: the cube-size target, reset to 1 first
CubeTarget(in) ==
    IF in.ThumbstickX["Left"] < 0 THEN 2
    ELSE IF in.ThumbstickX["Left"] > 0 THEN 3
    ELSE IF in.Buttons # {} THEN 4
    ELSE 1

ButtonStageNoLatch(g, Buttons) ==
    LET s0 == IF Buttons = {} THEN [g EXCEPT !.isPressed = FALSE] ELSE g
    IN  IF "A" \in Buttons /\ ~s0.isPressed
        THEN [s0 EXCEPT !.button_A = IF @ = 5 THEN 1 ELSE @ + 1]
        ELSE IF "B" \in Buttons /\ ~s0.isPressed
        THEN [s0 EXCEPT !.button_B = IF @ = 4 THEN 1 ELSE @ + 1]
        ELSE IF "X" \in Buttons /\ ~s0.isPressed
        THEN [s0 EXCEPT !.button_X = IF @ = 4 THEN 1 ELSE @ + 1]
        ELSE IF "Y" \in Buttons /\ ~s0.isPressed
        THEN [s0 EXCEPT !.superRotation = ~@]
        ELSE s0

\* 705-745. g = [isPressed, button_A, button_B, button_X, superRotation]
ButtonStage(g, Buttons) ==
    LET s0 == IF Buttons = {} THEN [g EXCEPT !.isPressed = FALSE] ELSE g
    IN  IF "A" \in Buttons /\ ~s0.isPressed
        THEN [s0 EXCEPT !.isPressed = TRUE, !.button_A = IF @ = 5 THEN 1 ELSE @ + 1]
        ELSE IF "B" \in Buttons /\ ~s0.isPressed
        THEN [s0 EXCEPT !.isPressed = TRUE, !.button_B = IF @ = 4 THEN 1 ELSE @ + 1]
        ELSE IF "X" \in Buttons /\ ~s0.isPressed
        THEN [s0 EXCEPT !.isPressed = TRUE, !.button_X = IF @ = 4 THEN 1 ELSE @ + 1]
        ELSE IF "Y" \in Buttons /\ ~s0.isPressed
        THEN [s0 EXCEPT !.isPressed = TRUE, !.superRotation = ~@]
        ELSE s0

(***************************************************************************)
(* RiftApp::update, the part run whether or not the input query succeeded  *)
(* (main.cpp 748-767). iod is held in thousandths; the per-eye offsets     *)
(* (float)(-iod/2), (float)(iod/2) in half-thousandths.                    *)
(***************************************************************************)
IodStep == 10
IodLimit == 300

ChangeIodNoReset(target, d, origin) ==
    IF target = 3 /\ d < IodLimit THEN d + IodStep
    ELSE IF target = 2 /\ d > -IodLimit THEN d - IodStep
    ELSE d

\* 748-757
ChangeIod(target, d, origin) ==
    IF target = 3 /\ d < IodLimit THEN d + IodStep
    ELSE IF target = 2 /\ d > -IodLimit THEN d - IodStep
    ELSE IF target = 4 THEN origin
    ELSE d

EyeOffsets(d) == [e \in {"Left", "Right"} |-> IF e = "Left" THEN -d ELSE d]

FreezeCountReloadPlusOne(c, lag) == IF c = 0 THEN lag + 1 ELSE c - 1

FreezeCountNoReload(c, lag) == IF c = 0 THEN 0 ELSE c - 1

\* 762-767
FreezeCount(c, lag) == IF c = 0 THEN lag ELSE c - 1
(***************************************************************************)
(* RiftApp::draw and ExampleApp::renderScene                               *)
(***************************************************************************)
\* what a default-constructed glm::mat4 member holds before its first
\* assignment: the identity (glm builds that initialise) or an indeterminate value
UninitMat4 == {"identity", "indeterminate"}

Unassigned(u) == [rot |-> <<u, 0>>, pos |-> <<u, 0>>]

\* ovr::toGlm(eyePoses[eye]) for the poses ovr_GetEyePoses returns in frame f:
\* columns 0..2 (rotation) and column 3 (translation) of the matrix
Sample(eye, f) == [rot |-> <<eye, f>>, pos |-> <<eye, f>>]

StabilizeTranslationNotHeld(mode, new, old) ==
    IF mode = 3 THEN [new EXCEPT !.rot = old.rot]
    ELSE IF mode = 4 THEN old
    ELSE new

\* 788-806: the stabilisation override selected by button_B
Stabilize(mode, new, old) ==
    IF mode = 2 THEN [new EXCEPT !.pos = old.pos]
    ELSE IF mode = 3 THEN [new EXCEPT !.rot = old.rot]
    ELSE IF mode = 4 THEN old
    ELSE new

Call(vp, projection, headPose, isLeft) ==
    [viewport |-> vp, projection |-> projection, headPose |-> headPose,
     isLeft |-> isLeft]

DispatchSwapIgnored(mode, eye, proj, lnew, rnew) ==
    IF mode = 2 THEN <<Call(eye, proj[eye], lnew, TRUE)>>
    ELSE IF mode = 3 THEN
        IF eye = "Left" THEN <<Call(eye, proj["Left"], lnew, TRUE)>> ELSE <<>>
    ELSE IF mode = 4 THEN
        IF eye = "Right" THEN <<Call(eye, proj["Right"], rnew, FALSE)>> ELSE <<>>
    ELSE
        IF eye = "Left" THEN <<Call(eye, proj["Left"], lnew, TRUE)>>
        ELSE <<Call(eye, proj["Right"], rnew, FALSE)>>

DispatchMonoOwnPose(mode, eye, proj, lnew, rnew) ==
    IF mode = 1 \/ mode = 2 THEN
        IF eye = "Left" THEN <<Call(eye, proj["Left"], lnew, TRUE)>>
        ELSE <<Call(eye, proj["Right"], rnew, FALSE)>>
    ELSE IF mode = 3 THEN
        IF eye = "Left" THEN <<Call(eye, proj["Left"], lnew, TRUE)>> ELSE <<>>
    ELSE IF mode = 4 THEN
        IF eye = "Right" THEN <<Call(eye, proj["Right"], rnew, FALSE)>> ELSE <<>>
    ELSE IF mode = 5 THEN
        IF eye = "Left" THEN <<Call(eye, proj["Right"], rnew, FALSE)>>
        ELSE <<Call(eye, proj["Left"], lnew, TRUE)>>
    ELSE <<>>

\* 821-855: the renderScene calls (none or one) made for viewport `eye`
Dispatch(mode, eye, proj, lnew, rnew) ==
    IF mode = 1 THEN
        IF eye = "Left" THEN <<Call(eye, proj["Left"], lnew, TRUE)>>
        ELSE <<Call(eye, proj["Right"], rnew, FALSE)>>
    ELSE IF mode = 2 THEN <<Call(eye, proj[eye], lnew, TRUE)>>
    ELSE IF mode = 3 THEN
        IF eye = "Left" THEN <<Call(eye, proj["Left"], lnew, TRUE)>> ELSE <<>>
    ELSE IF mode = 4 THEN
        IF eye = "Right" THEN <<Call(eye, proj["Right"], rnew, FALSE)>> ELSE <<>>
    ELSE IF mode = 5 THEN
        IF eye = "Left" THEN <<Call(eye, proj["Right"], rnew, FALSE)>>
        ELSE <<Call(eye, proj["Left"], lnew, TRUE)>>
    ELSE <<>>

\* Scene::cubeSize[0][0] in millionths; glm::scale(..., vec3(0.1f))
CubeSizeInitial == 100000
CubeSizeMin == 10000
CubeSizeMax == 500000

\* Scene::render 964-974: the three tests are made in sequence
SceneRender(target, size) ==
    LET a == IF target = 2 /\ size > CubeSizeMin THEN (size * 99) \div 100 ELSE size
        b == IF target = 3 /\ a < CubeSizeMax THEN (a * 101) \div 100 ELSE a
    IN  IF target = 4 THEN CubeSizeInitial ELSE b

\* The record of the latest Buffer call (prev: the call before it; readBefore,
\* numBefore: the buffer's read cursor and occupancy when it was made).
\* alternating: every call so far followed the caller's pattern push, pop, ...
AfterPush(lc, b, v) ==
    [op |-> "push", prev |-> lc.op, lag |-> 0, ret |-> v, readBefore |-> b.read,
     numBefore |-> b.num, alternating |-> lc.alternating /\ lc.op # "push"]

AfterPop(lc, b, lag, ret) ==
    [op |-> "pop", prev |-> lc.op, lag |-> lag, ret |-> ret, readBefore |-> b.read,
     numBefore |-> b.num, alternating |-> lc.alternating /\ lc.op = "push"]

\* ExampleApp::renderScene 1087-1119. st = [buffer, cubeSize, handSamples,
\* lastCall, calls]; the hand position sampled is named by its ordinal.
RenderScene(st, c, target, lag, alt) ==
    LET v == st.handSamples + 1
        pushed == push(st.buffer, v)
        lc1 == AfterPush(st.lastCall, st.buffer, v)
        p == pop(pushed, lag)
        lc2 == AfterPop(lc1, pushed, lag, p.ret)
    IN  [buffer |-> p.buf,
         cubeSize |-> SceneRender(target, st.cubeSize),
         handSamples |-> v,
         lastCall |-> lc2,
         calls |-> Append(st.calls,
                          [viewport |-> c.viewport, projection |-> c.projection,
                           headPose |-> c.headPose, isLeft |-> c.isLeft,
                           alternate |-> alt, cursor |-> p.ret])]

\* How the renderScene calls cs of one draw got their arguments: "fresh" when
\* every call was given the pose sampled in this frame (sL, sR) and a current
\* projection, "reused" when every call was given the pose and a projection
\* stored by an earlier frame, "other" otherwise.
Kind(cs, sL, sR, oldL, oldR, projNow, projOld) ==
    LET idx == 1..Len(cs)
    IN  IF \A i \in idx :
              /\ cs[i].headPose = IF cs[i].isLeft THEN sL ELSE sR
              /\ cs[i].projection \in {projNow[e] : e \in {"Left", "Right"}}
        THEN "fresh"
        ELSE IF \A i \in idx :
              /\ cs[i].headPose = IF cs[i].isLeft THEN oldL ELSE oldR
              /\ cs[i].projection \in {projOld[e] : e \in {"Left", "Right"}}
        THEN "reused"
        ELSE "other"

\* The cap of the freeze observer's counters
FrzCap == RenderLagMax + 2

Bump(n) == IF n < FrzCap THEN n + 1 ELSE n

\* Observer of the draws: lag is render_lag at the latest draw, run the number of
\* consecutive draws (the latest included) made with that render_lag and the
\* default stabilisation mode, sinceFresh / sincePrev the number of draws since
\* the latest / the one before the latest freshly sampled draw, sinceOther the
\* number of draws since one that was neither fresh nor a reuse.
FrzNext(f, lag, mode, kind) ==
    [lag |-> lag,
     run |-> IF mode # 1 THEN 0 ELSE IF lag = f.lag THEN Bump(f.run) ELSE 1,
     sinceFresh |-> IF kind = "fresh" THEN 0 ELSE Bump(f.sinceFresh),
     sincePrev |-> IF kind = "fresh" THEN Bump(f.sinceFresh) ELSE Bump(f.sincePrev),
     sinceOther |-> IF kind = "other" THEN 0 ELSE Bump(f.sinceOther)]
(***************************************************************************)
(* Observers of the controller input, updated by each update call          *)
(***************************************************************************)
\* btnTrack.held: "idle" when the latest successful input query saw no button
\* down; b when such a frame was followed by a frame with b the only mapped
\* button down and b has been down in every successful query since; "none"
\* otherwise. changes: the updates since the press (it included) that changed
\* b's mode field; updates: the successful queries that saw b down since then.
BtnTrackNext(t, in, changed) ==
    LET idle == [held |-> "idle", changes |-> 0, updates |-> 0]
        none == [held |-> "none", changes |-> 0, updates |-> 0]
    IN  IF ~in.ok THEN
            [t EXCEPT !.changes = IF t.held \in changed THEN @ + 1 ELSE @]
        ELSE IF in.Buttons = {} THEN idle
        ELSE IF t.held = "idle" THEN
            IF Cardinality(in.Buttons \cap MappedButtons) = 1
            THEN LET b == CHOOSE x \in in.Buttons \cap MappedButtons : TRUE
                 IN  [held |-> b, changes |-> IF b \in changed THEN 1 ELSE 0,
                      updates |-> 1]
            ELSE none
        ELSE IF t.held \in in.Buttons THEN
            [t EXCEPT !.changes = IF t.held \in changed THEN @ + 1 ELSE @,
                      !.updates = @ + 1]
        ELSE none

AtBound(t, lagT, lagR) ==
    CASE t = "IndexLeft"  -> lagT = 0
      [] t = "IndexRight" -> lagT = TrackingLagMax
      [] t = "HandLeft"   -> lagR = 0
      [] t = "HandRight"  -> lagR = RenderLagMax

\* trigTrack.held: "idle" when a successful query saw all four triggers released
\* and none has been pressed since; t when, from idle, t alone was pressed with
\* its lag value not at its bound and t has stayed pressed in every successful
\* query since; "none" otherwise. baseT, baseR: the lag values before the press;
\* updates: the successful queries that saw t pressed since then.
TrigTrackNext(t, in, lagT, lagR) ==
    LET pressed == {x \in Triggers : Level(in, x) > TriggerPressAbove}
        idle == [held |-> "idle", baseT |-> 0, baseR |-> 0, updates |-> 0]
        none == [held |-> "none", baseT |-> 0, baseR |-> 0, updates |-> 0]
    IN  IF ~in.ok THEN t
        ELSE IF AllTriggersReleased(in) THEN idle
        ELSE IF t.held = "idle" THEN
            IF pressed = {} THEN idle
            ELSE IF Cardinality(pressed) = 1
            THEN LET x == CHOOSE y \in pressed : TRUE
                 IN  IF AtBound(x, lagT, lagR) THEN none
                     ELSE [held |-> x, baseT |-> lagT, baseR |-> lagR, updates |-> 1]
            ELSE none
        ELSE IF t.held \in pressed THEN [t EXCEPT !.updates = @ + 1]
        ELSE none

\* latch.by: the trigger whose press made the latest lag adjustment, until a
\* successful query sees it released (below 0.01). extra: the updates that
\* adjusted a lag value while latch.by was still held.
LatchNext(l, in, by, adjusted) ==
    IF l.by # "none" /\ ~(in.ok /\ Level(in, l.by) < TriggerReleaseBelow)
    THEN [l EXCEPT !.extra = IF adjusted THEN @ + 1 ELSE @]
    ELSE [by |-> by, extra |-> 0]

\* What the latest update call did. ok: its input query succeeded; target: the
\* value of set_iod its `change iod` block tested; n: the number of consecutive
\* updates, this one included, that tested this target; d0: iod before the
\* first of them; before: the values the update found. (n and d0 span several
\* updates only when the ramp is watched, before is kept only when the
\* calibration is watched.) in: the input state the update was given, kept
\* only when the input is watched.
NoInput ==
    [ok |-> FALSE, IndexTrigger |-> [h \in Hands |-> 0],
     HandTrigger |-> [h \in Hands |-> 0], ThumbstickX |-> [h \in Hands |-> 0],
     Buttons |-> {}]

NoUpdate ==
    [ok |-> TRUE, target |-> 1, n |-> 0, d0 |-> 0, in |-> NoInput,
     before |-> [tracking_lag |-> 0, render_lag |-> 0, button_A |-> 1,
                 button_B |-> 1, button_X |-> 1, superRotation |-> FALSE,
                 set_Cubesize |-> 1, iod |-> 0, cubeSize |-> 0]]

UpdNext(u, in, target, d, snapshot, watch) ==
    LET goesOn == "ramp" \in watch /\ target = u.target /\ u.n > 0
    IN  [ok |-> in.ok, target |-> target,
         n |-> IF goesOn THEN u.n + 1 ELSE 1,
         d0 |-> IF goesOn THEN u.d0 ELSE d,
         in |-> IF "input" \in watch THEN in ELSE NoInput,
         before |-> IF "calibration" \in watch THEN snapshot ELSE NoUpdate.before]

(***************************************************************************)
(* RiftApp::RiftApp, the render-target layout (main.cpp 536-558)           *)
(***************************************************************************)
\* the value an indeterminate uint32 member is taken to hold
IndeterminateUint == 4096

\* uvec2 _renderTargetSize before the constructor body runs: zero when glm's
\* default constructor initialises (u = "identity"), indeterminate otherwise
UninitUvec2(u) ==
    IF u = "identity" THEN <<0, 0>> ELSE <<IndeterminateUint, IndeterminateUint>>

Max(a, b) == IF a >= b THEN a ELSE b

\* memset(&_sceneLayer, 0, ...): every viewport rectangle is zero
ZeroViewports ==
    [e \in {"Left", "Right"} |-> [Pos |-> <<0, 0>>, Size |-> [w |-> 0, h |-> 0]]]

\* 549-554, one pass of the for_each_eye lambda. st = [renderTargetSize, viewport].
\* Every size of the model is far below 2^31, where the uint32 arithmetic and
\* the casts (int), (uint32_t) are exact.
ForEachEyeLayout(st, eye, eyeSize) ==
    [renderTargetSize |->
        <<st.renderTargetSize[1] + eyeSize.w,
          Max(st.renderTargetSize[2], eyeSize.h)>>,
     viewport |->
        [st.viewport EXCEPT ![eye] =
            [Pos |-> <<st.renderTargetSize[1], 0>>, Size |-> eyeSize]]]

\* 536-558: the lambda for the left and then the right eye, then _mirrorSize.
\* r0: what _renderTargetSize holds when the constructor body starts.
Constructed(r0, sizes) ==
    LET s0 == [renderTargetSize |-> r0, viewport |-> ZeroViewports]
        s1 == ForEachEyeLayout(s0, Eyes[1], sizes[Eyes[1]])
        s2 == ForEachEyeLayout(s1, Eyes[2], sizes[Eyes[2]])
    IN  [renderTargetSize |-> s2.renderTargetSize,
         viewport |-> s2.viewport,
         mirrorSize |-> <<s2.renderTargetSize[1] \div 4, s2.renderTargetSize[2] \div 4>>]

\* the per-eye texture size ovr_GetFovTextureSize reports in the render-loop
\* specifications
DeviceFovTextureSize == [e \in {"Left", "Right"} |-> [w |-> 100, h |-> 100]]

\* the widths and heights it reports in the specification of the constructor
TextureExtents == {100, 128, 150}

\* the device calls of RiftApp::initGl that can make it FAIL, in call order
StartupCalls == <<"swapChain", "swapChainLength", "mirrorTexture">>

NotStarted ==
    [swapChain |-> "notCalled", swapChainLength |-> "notCalled",
     mirrorTexture |-> "notCalled", framebuffer |-> "notCreated"]

(***************************************************************************)
(* The state after construction (GlfwApp, RiftManagerApp, RiftApp and      *)
(* ExampleApp constructors have run; run() is about to call initGl).       *)
(* With start = "construct" the layout members are as they are before the  *)
(* body of RiftApp::RiftApp runs, for any sizes the device may report.     *)
(***************************************************************************)
\* |HmdToEyePose[0].x - HmdToEyePose[1].x| reported by the device, thousandths
DeviceIods == {64}

NoCall ==
    [op |-> "none", prev |-> "none", lag |-> 0, ret |-> 0, readBefore |-> 0,
     numBefore |-> 0, alternating |-> TRUE]

InitObservers ==
    /\ handSamples = 0
    /\ calls = <<>>
    /\ submitted = [frame |-> 0, offsets |-> EyeOffsets(0), phases |-> <<>>]
    /\ lastCall = NoCall
    /\ btnTrack = [held |-> "none", changes |-> 0, updates |-> 0]
    /\ trigTrack = [held |-> "none", baseT |-> 0, baseR |-> 0, updates |-> 0]
    /\ latch = [by |-> "none", extra |-> 0]
    /\ frz = [lag |-> 0, run |-> 0, sinceFresh |-> FrzCap, sincePrev |-> FrzCap,
              sinceOther |-> FrzCap]
    /\ upd = NoUpdate
    /\ reloaded = FALSE

InitProgram(start) ==
    /\ pc = start
    /\ frame = 0
    /\ shouldClose = FALSE
    /\ button_A = 1 /\ button_B = 1 /\ button_X = 1
    /\ isPressed = FALSE /\ isTouched = FALSE
    /\ set_Cubesize = 1
    /\ tracking_lag = 0 /\ render_lag = 0
    /\ superRotation = FALSE
    /\ eyeProjections = [e \in {"Left", "Right"} |-> e]
    /\ fovTextureSize \in
          IF start = "construct"
          THEN [{"Left", "Right"} -> [w : TextureExtents, h : TextureExtents]]
          ELSE {DeviceFovTextureSize}
    /\ \E u \in UninitMat4 :
          /\ projection_old = [e \in {"Left", "Right"} |-> u]
          /\ left_pos_old = Unassigned(u) /\ left_pos_new = Unassigned(u)
          /\ right_pos_old = Unassigned(u) /\ right_pos_new = Unassigned(u)
          /\ LET c == Constructed(UninitUvec2(u), fovTextureSize)
             IN  IF start = "construct"
                 THEN /\ renderTargetSize = UninitUvec2(u)
                      /\ mirrorSize = UninitUvec2(u)
                      /\ sceneLayerViewport = ZeroViewports
                 ELSE /\ renderTargetSize = c.renderTargetSize
                      /\ mirrorSize = c.mirrorSize
                      /\ sceneLayerViewport = c.viewport
    /\ startup = NotStarted
    /\ iod_origin \in DeviceIods
    /\ iod = iod_origin
    /\ set_iod = 1
    /\ count = 0
    /\ hmdToEyeX = EyeOffsets(iod_origin)
    /\ cubeSize = CubeSizeInitial
    /\ buffer = NewBuffer

Init == InitProgram("initGl") /\ InitObservers /\ scenario = "freeze"

(***************************************************************************)
(* GlfwApp::run                                                            *)
(***************************************************************************)
\* What the device calls of initGl return in this run: the call that fails
\* ("none": all succeed) and the completeness glCheckFramebufferStatus would
\* report for the framebuffer object set up at 608-616. Only the "run" family
\* of runs has failing calls and incomplete framebuffers.
StartupOutcomes ==
    IF scenario = "run"
    THEN {[failing |-> c, framebuffer |-> fb] :
             c \in {"none"} \cup {StartupCalls[i] : i \in 1..Len(StartupCalls)},
             fb \in {"complete", "incomplete"}}
    ELSE {[failing |-> "none", framebuffer |-> "complete"]}

\* RiftApp::initGl 567-628: the calls made up to the first failing one
StartupResult(o) ==
    LET at(c) == CHOOSE i \in 1..Len(StartupCalls) : StartupCalls[i] = c
        stop == IF o.failing = "none" THEN Len(StartupCalls) + 1 ELSE at(o.failing)
        res(c) == IF at(c) < stop THEN "success"
                  ELSE IF at(c) = stop THEN "failure" ELSE "notCalled"
    IN  [swapChain |-> res("swapChain"),
         swapChainLength |-> res("swapChainLength"),
         mirrorTexture |-> res("mirrorTexture"),
         framebuffer |-> IF stop > at("swapChainLength") THEN o.framebuffer
                         ELSE "notCreated"]

\* ExampleApp::initGl 1071-1080 with RiftApp::initGl 567-628. A failing device
\* call runs FAIL, which throws; nothing catches it (main 1122-1134), so the
\* process terminates. Otherwise the scene, the cursor and the ring buffer are
\* created. The completeness of the framebuffer is not tested.
InitGl ==
    /\ pc = "initGl"
    /\ \E o \in StartupOutcomes :
          /\ startup' = StartupResult(o)
          /\ pc' = IF o.failing = "none" THEN "loop" ELSE "terminated"
          /\ cubeSize' = IF o.failing = "none" THEN CubeSizeInitial ELSE cubeSize
          /\ buffer' = IF o.failing = "none" THEN NewBuffer ELSE buffer
    /\ UNCHANGED <<frame, shouldClose, button_A, button_B, button_X, isPressed,
                   isTouched, set_Cubesize, tracking_lag, render_lag, superRotation,
                   eyeProjections, projection_old, left_pos_old, left_pos_new,
                   right_pos_old, right_pos_new, iod, iod_origin, set_iod, count,
                   hmdToEyeX, layoutVars, obsVars>>

\* 229-231: the loop test passes and the frame counter is incremented
LoopEnter(maxFrames) ==
    /\ pc = "loop"
    /\ ~shouldClose
    /\ frame < maxFrames
    /\ frame' = frame + 1
    /\ pc' = "poll"
    /\ UNCHANGED <<shouldClose, button_A, button_B, button_X, isPressed, isTouched,
                   set_Cubesize, tracking_lag, render_lag, superRotation,
                   eyeProjections, projection_old, left_pos_old, left_pos_new,
                   right_pos_old, right_pos_new, iod, iod_origin, set_iod, count,
                   hmdToEyeX, cubeSize, buffer, layoutVars, startup, obsVars>>

\* 229, 238: the loop test fails
LoopExit ==
    /\ pc = "loop"
    /\ shouldClose
    /\ pc' = "shutdown"
    /\ UNCHANGED <<frame, shouldClose, button_A, button_B, button_X, isPressed,
                   isTouched, set_Cubesize, tracking_lag, render_lag, superRotation,
                   eyeProjections, projection_old, left_pos_old, left_pos_new,
                   right_pos_old, right_pos_new, iod, iod_origin, set_iod, count,
                   hmdToEyeX, cubeSize, buffer, layoutVars, startup, obsVars>>

PollEventsEscapeBreaks(key) ==
    /\ pc = "poll"
    /\ pc' = IF key = "escape" THEN "loop" ELSE "update"
    /\ shouldClose' = IF key = "escape" THEN TRUE ELSE shouldClose
    /\ UNCHANGED <<frame, button_A, button_B, button_X, isPressed, isTouched,
                   set_Cubesize, tracking_lag, render_lag, superRotation,
                   eyeProjections, projection_old, left_pos_old, left_pos_new,
                   right_pos_old, right_pos_new, iod, iod_origin, set_iod, count,
                   hmdToEyeX, cubeSize, buffer, layoutVars, startup, obsVars>>

\* 232, RiftApp::onKey 630-641, GlfwApp::onKey 305-318: glfwPollEvents delivers
\* the key press `key` ("none": no key event; "R" recenters the tracking origin)
PollEvents(key) ==
    /\ pc = "poll"
    /\ pc' = "update"
    /\ shouldClose' = IF key = "escape" THEN TRUE ELSE shouldClose
    /\ UNCHANGED <<frame, button_A, button_B, button_X, isPressed, isTouched,
                   set_Cubesize, tracking_lag, render_lag, superRotation,
                   eyeProjections, projection_old, left_pos_old, left_pos_new,
                   right_pos_old, right_pos_new, iod, iod_origin, set_iod, count,
                   hmdToEyeX, cubeSize, buffer, layoutVars, startup, obsVars>>

\* 235, 293-296
FinishFrame ==
    /\ pc = "finish"
    /\ pc' = "loop"
    /\ UNCHANGED <<frame, shouldClose, button_A, button_B, button_X, isPressed,
                   isTouched, set_Cubesize, tracking_lag, render_lag, superRotation,
                   eyeProjections, projection_old, left_pos_old, left_pos_new,
                   right_pos_old, right_pos_new, iod, iod_origin, set_iod, count,
                   hmdToEyeX, cubeSize, buffer, layoutVars, startup, obsVars>>
\* RiftApp::update 643-768 for the input state `in` ovr_GetInputState returns
\* (in.ok: the query succeeded). watch: the observers this specification keeps.
Update(in, watch) ==
    /\ pc = "update"
    /\ pc' = "draw"
    /\ LET g0 == [isTouched |-> isTouched, tracking_lag |-> tracking_lag,
                  render_lag |-> render_lag, by |-> "none"]
           g1 == IF in.ok THEN TriggerStage(g0, in) ELSE g0
           target == IF in.ok THEN IodTarget(set_iod, in) ELSE set_iod
           b0 == [isPressed |-> isPressed, button_A |-> button_A,
                  button_B |-> button_B, button_X |-> button_X,
                  superRotation |-> superRotation]
           b1 == IF in.ok THEN ButtonStage(b0, in.Buttons) ELSE b0
           d == ChangeIod(target, iod, iod_origin)
           changed == {b \in MappedButtons :
                          \/ b = "A" /\ b1.button_A # button_A
                          \/ b = "B" /\ b1.button_B # button_B
                          \/ b = "X" /\ b1.button_X # button_X
                          \/ b = "Y" /\ b1.superRotation # superRotation}
           adjusted == g1.tracking_lag # tracking_lag \/ g1.render_lag # render_lag
       IN  /\ isTouched' = g1.isTouched
           /\ tracking_lag' = g1.tracking_lag
           /\ render_lag' = g1.render_lag
           /\ set_Cubesize' = IF in.ok THEN CubeTarget(in) ELSE set_Cubesize
           /\ isPressed' = b1.isPressed
           /\ button_A' = b1.button_A
           /\ button_B' = b1.button_B
           /\ button_X' = b1.button_X
           /\ superRotation' = b1.superRotation
           /\ iod' = d
           /\ hmdToEyeX' = EyeOffsets(d)
           /\ set_iod' = 1
           /\ count' = FreezeCount(count, g1.render_lag)
           /\ btnTrack' = IF "buttons" \in watch
                          THEN BtnTrackNext(btnTrack, in, changed) ELSE btnTrack
           /\ trigTrack' = IF "triggers" \in watch
                           THEN TrigTrackNext(trigTrack, in, tracking_lag, render_lag)
                           ELSE trigTrack
           /\ latch' = IF "triggers" \in watch
                       THEN LatchNext(latch, in, g1.by, adjusted) ELSE latch
           /\ upd' = IF watch \cap {"ramp", "calibration", "input"} # {}
                     THEN UpdNext(upd, in, target, iod,
                                  [tracking_lag |-> tracking_lag,
                                   render_lag |-> render_lag,
                                   button_A |-> button_A, button_B |-> button_B,
                                   button_X |-> button_X,
                                   superRotation |-> superRotation,
                                   set_Cubesize |-> set_Cubesize, iod |-> iod,
                                   cubeSize |-> cubeSize], watch)
                     ELSE upd
           /\ reloaded' = IF "freeze" \in watch THEN count = 0 ELSE reloaded
    /\ UNCHANGED <<frame, shouldClose, eyeProjections, projection_old, left_pos_old,
                   left_pos_new, right_pos_old, right_pos_new, iod_origin, cubeSize,
                   buffer, layoutVars, startup, handSamples, calls, submitted,
                   lastCall, frz, scenario>>

Phase(name, vp) == [phase |-> name, viewport |-> vp]

DrawPhasesSubmitFirst(cs) ==
    <<Phase("submit", "none")>>
    \o [i \in 1..Len(cs) |-> Phase("renderScene", cs[i].viewport)]
    \o <<Phase("commit", "none"), Phase("blit", "none"), Phase("history", "none")>>

\* 815-874: what draw does after the poses are chosen, in the order of the
\* code: the renderScene calls cs of the for_each_eye loop, the swap-chain
\* commit (860), ovr_SubmitFrame (862), the mirror blit (864-870) and the
\* history update (872-874)
DrawPhases(cs) ==
    [i \in 1..Len(cs) |-> Phase("renderScene", cs[i].viewport)]
    \o <<Phase("commit", "none"), Phase("submit", "none"), Phase("blit", "none"),
         Phase("history", "none")>>

FreshOnReload(c, lag) == c = lag

\* 775: the test that selects newly sampled poses (lag: render_lag)
Fresh(c, lag) == c = 0

\* RiftApp::draw 770-875, with the renderScene calls it makes
Draw(watch) ==
    /\ pc = "draw"
    /\ pc' = "finish"
    /\ LET sL == Sample("Left", frame)
           sR == Sample("Right", frame)
           fresh == Fresh(count, render_lag)
           l0 == IF fresh THEN sL ELSE left_pos_old
           r0 == IF fresh THEN sR ELSE right_pos_old
           proj == IF fresh THEN eyeProjections ELSE projection_old
           l1 == Stabilize(button_B, l0, left_pos_old)
           r1 == Stabilize(button_B, r0, right_pos_old)
           cs == Dispatch(button_A, Eyes[1], proj, l1, r1)
                 \o Dispatch(button_A, Eyes[2], proj, l1, r1)
           st0 == [buffer |-> buffer, cubeSize |-> cubeSize,
                   handSamples |-> handSamples, lastCall |-> lastCall,
                   calls |-> <<>>]
           st1 == IF Len(cs) >= 1
                  THEN RenderScene(st0, cs[1], set_Cubesize, tracking_lag, superRotation)
                  ELSE st0
           st2 == IF Len(cs) >= 2
                  THEN RenderScene(st1, cs[2], set_Cubesize, tracking_lag, superRotation)
                  ELSE st1
           kind == Kind(st2.calls, sL, sR, left_pos_old, right_pos_old,
                        eyeProjections, projection_old)
       IN  /\ left_pos_new' = l1
           /\ right_pos_new' = r1
           /\ eyeProjections' = proj
           /\ projection_old' = IF fresh THEN eyeProjections ELSE projection_old
           /\ buffer' = st2.buffer
           /\ cubeSize' = st2.cubeSize
           /\ handSamples' = st2.handSamples
           /\ lastCall' = st2.lastCall
           /\ calls' = st2.calls
           /\ submitted' = [frame |-> frame, offsets |-> hmdToEyeX,
                             phases |-> DrawPhases(st2.calls)]
           /\ left_pos_old' = l1
           /\ right_pos_old' = r1
           /\ frz' = IF "freeze" \in watch
                     THEN FrzNext(frz, render_lag, button_B, kind) ELSE frz
    /\ UNCHANGED <<frame, shouldClose, button_A, button_B, button_X, isPressed,
                   isTouched, set_Cubesize, tracking_lag, render_lag, superRotation,
                   iod, iod_origin, set_iod, count, hmdToEyeX, layoutVars, startup,
                   btnTrack, trigTrack, latch, upd, reloaded, scenario>>

(***************************************************************************)
(* The ring buffer on its own: any sequence of push and pop calls          *)
(***************************************************************************)
CallPush ==
    /\ pc = "detached"
    /\ handSamples < MaxPushes
    /\ buffer' = push(buffer, handSamples + 1)
    /\ handSamples' = handSamples + 1
    /\ lastCall' = AfterPush(lastCall, buffer, handSamples + 1)
    /\ UNCHANGED <<pc, frame, shouldClose, button_A, button_B, button_X, isPressed,
                   isTouched, set_Cubesize, tracking_lag, render_lag, superRotation,
                   eyeProjections, projection_old, left_pos_old, left_pos_new,
                   right_pos_old, right_pos_new, iod, iod_origin, set_iod, count,
                   hmdToEyeX, cubeSize, layoutVars, startup, calls, submitted,
                   btnTrack, trigTrack, latch, frz, upd, reloaded, scenario>>

CallPop(lag) ==
    /\ pc = "detached"
    /\ handSamples >= 1
    /\ buffer' = pop(buffer, lag).buf
    /\ lastCall' = AfterPop(lastCall, buffer, lag, pop(buffer, lag).ret)
    /\ UNCHANGED <<pc, frame, shouldClose, button_A, button_B, button_X, isPressed,
                   isTouched, set_Cubesize, tracking_lag, render_lag, superRotation,
                   eyeProjections, projection_old, left_pos_old, left_pos_new,
                   right_pos_old, right_pos_new, iod, iod_origin, set_iod, count,
                   hmdToEyeX, cubeSize, layoutVars, startup, handSamples, calls,
                   submitted, btnTrack, trigTrack, latch, frz, upd, reloaded,
                   scenario>>

InitBuffer == InitProgram("detached") /\ InitObservers /\ scenario = "buffer"

NextBuffer == CallPush \/ \E lag \in Lags : CallPop(lag)

SpecBuffer == InitBuffer /\ [][NextBuffer]_vars
(***************************************************************************)
(* Ring buffer properties (SpecBuffer)                                     *)
(***************************************************************************)
\* the buffer is full and the latest call is a pop made right after a push
PopAfterPushWhenFull ==
    /\ lastCall.op = "pop"
    /\ lastCall.prev = "push"
    /\ lastCall.numBefore = BufferCapacity

\* C7: once 30 or more pushes have been made, a pop(0) issued immediately after
\* push(v), with no push in between, returns v (v is the sample of ordinal
\* handSamples, the latest one pushed).
C7_PopZeroReturnsLatestPush ==
    (PopAfterPushWhenFull /\ lastCall.lag = 0) => lastCall.ret = handSamples

\* C8: with the buffer full and every push followed by one pop, pop(29) issued
\* after a push returns the value of the push made 29 pushes before that push.
C8_PopMaxLagReturns29PushesAgo ==
    (PopAfterPushWhenFull /\ lastCall.alternating /\ lastCall.lag = BufferCapacity - 1)
        => lastCall.ret = handSamples - (BufferCapacity - 1)

\* C9: while at least one and fewer than 30 pushes have been made, every pop,
\* for every lag in 0..29, returns the first value ever pushed (ordinal 1) and
\* leaves the read cursor where it was.
C9_PopBeforeFullReturnsFirst ==
    (handSamples >= 1 /\ handSamples < BufferCapacity) =>
        /\ \A lag \in Lags :
              /\ pop(buffer, lag).ret = 1
              /\ pop(buffer, lag).buf.read = buffer.read
        /\ lastCall.op = "pop" =>
              (lastCall.ret = 1 /\ buffer.read = lastCall.readBefore)

\* C9 witness: 29 pushes were made, then pop(29) was called and returned sample 1
C9_Witness ==
    /\ handSamples = BufferCapacity - 1
    /\ lastCall.op = "pop"
    /\ lastCall.lag = BufferCapacity - 1
    /\ lastCall.ret = 1
    /\ buffer.write = BufferCapacity - 1

\* C10: with the buffer full and each push followed by one pop, right after a
\* push the sample pop(b) would return is no younger than the sample pop(a)
\* would return, for all lags a < b, and pop(0) would return the latest sample.
C10_DelayGrowsWithLag ==
    (lastCall.op = "push" /\ lastCall.alternating /\ buffer.num = BufferCapacity) =>
        /\ \A a \in Lags : \A b \in Lags :
              a < b => pop(buffer, b).ret <= pop(buffer, a).ret
        /\ pop(buffer, 0).ret = handSamples
(***************************************************************************)
(* Controller inputs and the specifications of the render loop             *)
(***************************************************************************)
\* trigger values: released, between the two thresholds, pressed
TriggerLevels == {0, TriggerPressAbove, 500}

Zero == [h \in Hands |-> 0]

\* the state ovr_GetInputState fills in
InputState(idx, hnd, thumb, buttons) ==
    [ok |-> TRUE, IndexTrigger |-> idx, HandTrigger |-> hnd, ThumbstickX |-> thumb,
     Buttons |-> buttons]

\* the query failed: inputState is not read
QueryFailed ==
    [ok |-> FALSE, IndexTrigger |-> Zero, HandTrigger |-> Zero, ThumbstickX |-> Zero,
     Buttons |-> {}]

\* frames run by each family of input sequences
MaxFramesFreeze == 20
MaxFramesIndex == 60
MaxFramesHand == 22
MaxFramesBoth == 10
MaxFramesButtons == 8
MaxFramesIod == 26
MaxFramesCube == 7
MaxFramesRun == 4
MaxFramesStab == 7
MaxFramesPress == 4
MaxFramesWindow == 31

MaxFrames ==
    CASE scenario = "freeze"  -> MaxFramesFreeze
      [] scenario = "index"   -> MaxFramesIndex
      [] scenario = "hand"    -> MaxFramesHand
      [] scenario = "both"    -> MaxFramesBoth
      [] scenario = "buttons" -> MaxFramesButtons
      [] scenario = "iod"     -> MaxFramesIod
      [] scenario = "cube"    -> MaxFramesCube
      [] scenario = "run"     -> MaxFramesRun
      [] scenario = "stab"    -> MaxFramesStab
      [] scenario = "press"   -> MaxFramesPress
      [] scenario = "window"  -> MaxFramesWindow
      [] OTHER -> 0

\* SpecFreeze: only the hand (render-lag) triggers move, and the query may fail
FreezeInputs ==
    {InputState(Zero, hnd, Zero, {}) : hnd \in [Hands -> TriggerLevels]}
    \cup {QueryFailed}

NextFreeze ==
    \/ InitGl
    \/ LoopEnter(MaxFrames)
    \/ PollEvents("none")
    \/ \E in \in FreezeInputs : Update(in, {"freeze"})
    \/ Draw({"freeze"})
    \/ FinishFrame

SpecFreeze == Init /\ [][NextFreeze]_vars

\* SpecLag: the triggers move through all three levels and the query may fail.
\* A run plays one of three families of input sequences: the index triggers
\* alone (long enough to take tracking_lag to its upper bound), the hand
\* triggers alone (long enough to take render_lag to its upper bound), or
\* all four triggers together.
LagInputs ==
    {QueryFailed} \cup
    {InputState(idx, hnd, Zero, {}) :
        idx \in IF scenario = "hand" THEN {Zero} ELSE [Hands -> TriggerLevels],
        hnd \in IF scenario = "index" THEN {Zero} ELSE [Hands -> TriggerLevels]}

InitLag ==
    InitProgram("initGl") /\ InitObservers /\ scenario \in {"index", "hand", "both"}

NextLag ==
    \/ InitGl
    \/ LoopEnter(MaxFrames)
    \/ PollEvents("none")
    \/ \E in \in LagInputs : Update(in, {"triggers"})
    \/ Draw({"triggers"})
    \/ FinishFrame

SpecLag == InitLag /\ [][NextLag]_vars

\* SpecButtons: the buttons move, and the query may fail
ButtonInputs ==
    {InputState(Zero, Zero, Zero, bs) : bs \in SUBSET {"A", "B", "X", "Y", "RThumb"}}
    \cup {QueryFailed}

InitButtons == InitProgram("initGl") /\ InitObservers /\ scenario = "buttons"

NextButtons ==
    \/ InitGl
    \/ LoopEnter(MaxFrames)
    \/ PollEvents("none")
    \/ \E in \in ButtonInputs : Update(in, {"buttons"})
    \/ Draw({"buttons"})
    \/ FinishFrame

SpecButtons == InitButtons /\ [][NextButtons]_vars
(***************************************************************************)
(* Render-lag freeze (SpecFreeze)                                          *)
(***************************************************************************)
\* C1: with render_lag held at k and the default stabilisation mode, every k+1
\* consecutive draws hold exactly one draw whose renderScene calls got freshly
\* sampled poses and projections, and k draws that reused the stored ones; with
\* k = 0 every draw is fresh. (frz.run >= k+1: the latest k+1 draws all had
\* render_lag = k; the latest fresh draw is among them, the one before is not.)
C1_OneFreshDrawPerWindow ==
    LET w == frz.lag + 1
    IN  frz.run >= w =>
            /\ frz.sinceFresh < w
            /\ frz.sincePrev >= w
            /\ frz.sinceOther >= w

\* C1 witness: render_lag has been 3 for eight draws and the latest is fresh
C1_Witness ==
    /\ pc = "finish"
    /\ frz.lag = 3
    /\ render_lag = 3
    /\ frz.run >= 8
    /\ frz.sinceFresh = 0
    /\ frz.sincePrev = 4
    /\ Len(calls) = 2
    /\ calls[1].headPose = Sample("Left", frame)

(***************************************************************************)
(* Per-eye dispatch and edge-triggered buttons (SpecButtons)               *)
(***************************************************************************)
\* C2: in the swapped mode (button_A = 5) every draw gives the left viewport
\* the right eye's projection and pose with isLeft = false, and the right
\* viewport the left eye's projection and pose with isLeft = true.
C2_SwappedDispatch ==
    (pc = "finish" /\ button_A = 5) =>
        /\ Len(calls) = 2
        /\ calls[1].viewport = "Left"
        /\ calls[1].projection = eyeProjections["Right"]
        /\ calls[1].headPose = right_pos_new
        /\ calls[1].isLeft = FALSE
        /\ calls[2].viewport = "Right"
        /\ calls[2].projection = eyeProjections["Left"]
        /\ calls[2].headPose = left_pos_new
        /\ calls[2].isLeft = TRUE

\* C2 witness: a draw in swapped mode with distinct left and right pairs
C2_Witness ==
    /\ pc = "finish"
    /\ button_A = 5
    /\ Len(calls) = 2
    /\ left_pos_new = Sample("Left", frame)
    /\ right_pos_new = Sample("Right", frame)
    /\ left_pos_new # right_pos_new
    /\ eyeProjections["Left"] # eyeProjections["Right"]

\* C3 as stated: in the mono-left mode (button_A = 2) both viewports are drawn
\* with the left eye's projection and the left eye's pose.
C3_MonoLeftUsesLeftPair ==
    (pc = "finish" /\ button_A = 2) =>
        /\ Len(calls) = 2
        /\ \A i \in 1..2 :
              /\ calls[i].projection = eyeProjections["Left"]
              /\ calls[i].headPose = left_pos_new

\* C3 as amended: in the mono-left mode both viewports are drawn with the left
\* eye's pose and isLeft = true, each with its own eye's projection.
C3_MonoLeftPoseOwnProjection ==
    (pc = "finish" /\ button_A = 2) =>
        /\ Len(calls) = 2
        /\ \A i \in 1..2 :
              /\ calls[i].viewport = Eyes[i]
              /\ calls[i].projection = eyeProjections[Eyes[i]]
              /\ calls[i].headPose = left_pos_new
              /\ calls[i].isLeft = TRUE

\* C3 witness: a draw in mono-left mode with distinct left and right pairs
C3_Witness ==
    /\ pc = "finish"
    /\ button_A = 2
    /\ Len(calls) = 2
    /\ left_pos_new = Sample("Left", frame)
    /\ right_pos_new = Sample("Right", frame)
    /\ eyeProjections["Left"] # eyeProjections["Right"]
    /\ calls[2].projection = eyeProjections["Right"]

\* C4: after a frame with no button down, a mapped button pressed alone and
\* held changes its mode field exactly once, in the update that first sees the
\* press, however many updates see it held.
C4_HeldButtonChangesOnce ==
    btnTrack.held \in MappedButtons => btnTrack.changes = 1

\* C4 witness: Y has been seen down by five updates in a row
C4_Witness ==
    /\ btnTrack.held = "Y"
    /\ btnTrack.updates >= 5
    /\ btnTrack.changes = 1
    /\ isPressed
    /\ superRotation

(***************************************************************************)
(* Lag counters (SpecLag)                                                  *)
(***************************************************************************)
\* C5: tracking_lag stays in 0..29 and render_lag in 0..10, no step changes
\* either by more than 1, and every Buffer::pop is called with a lag in 0..29.
C5_LagsBounded ==
    [][ /\ tracking_lag' \in 0..TrackingLagMax
        /\ render_lag' \in 0..RenderLagMax
        /\ tracking_lag' - tracking_lag \in {-1, 0, 1}
        /\ render_lag' - render_lag \in {-1, 0, 1}
        /\ lastCall'.op = "pop" => lastCall'.lag \in 0..(BufferCapacity - 1) ]_vars

\* C5 witness: tracking_lag is at its upper bound and pop was called with it
C5_Witness ==
    /\ tracking_lag = TrackingLagMax
    /\ pc = "finish"
    /\ lastCall.op = "pop"
    /\ lastCall.lag = TrackingLagMax
    /\ buffer.num = BufferCapacity

DeltaT(t) == IF t = "IndexLeft" THEN -1 ELSE IF t = "IndexRight" THEN 1 ELSE 0
DeltaR(t) == IF t = "HandLeft" THEN -1 ELSE IF t = "HandRight" THEN 1 ELSE 0

\* C6: once a trigger press has adjusted a lag value, no later update adjusts
\* either lag value until that trigger is seen released; and a trigger pressed
\* alone from the released state, its value not at its bound, and held changes
\* its lag value by exactly 1 in total (and the other lag value not at all).
C6_OneAdjustmentPerPress ==
    /\ latch.extra = 0
    /\ trigTrack.held \in Triggers =>
          /\ tracking_lag = trigTrack.baseT + DeltaT(trigTrack.held)
          /\ render_lag = trigTrack.baseR + DeltaR(trigTrack.held)

\* C6 witness: the right index trigger has been seen pressed by five updates
C6_Witness ==
    /\ trigTrack.held = "IndexRight"
    /\ trigTrack.updates >= 5
    /\ latch.by = "IndexRight"
    /\ tracking_lag = trigTrack.baseT + 1
    /\ tracking_lag >= 3

(***************************************************************************)
(* Hand-position sampling per frame (SpecButtons)                          *)
(***************************************************************************)
\* C11: every loop iteration, whatever the value of button_A, makes exactly one
\* Buffer::push and exactly one Buffer::pop, the push before the pop. (Each
\* renderScene call of the draw samples one hand position, pushes it and pops
\* once; calls holds the renderScene calls of the draw.)
C11_OnePushOnePopPerFrame ==
    [][pc = "draw" =>
          /\ handSamples' = handSamples + 1
          /\ Len(calls') = 1
          /\ lastCall'.op = "pop"
          /\ lastCall'.prev = "push"]_vars

(***************************************************************************)
(* Interocular distance (SpecIod) and cube size (SpecCube)                 *)
(***************************************************************************)
\* thumbstick x values: pushed left, centred, pushed right (thousandths)
ThumbstickLevels == {-1000, 0, 1000}

\* SpecIod: the right thumbstick and the right thumbstick button move, long
\* enough to take iod from the device's value past its upper limit, and the
\* query may fail
IodInputs ==
    {InputState(Zero, Zero, [Zero EXCEPT !["Right"] = x], bs) :
        x \in ThumbstickLevels, bs \in {{}, {"RThumb"}}}
    \cup {QueryFailed}

InitIod == InitProgram("initGl") /\ InitObservers /\ scenario = "iod"

NextIod ==
    \/ InitGl
    \/ LoopEnter(MaxFrames)
    \/ PollEvents("none")
    \/ \E in \in IodInputs : Update(in, {"ramp"})
    \/ Draw({"ramp"})
    \/ FinishFrame

SpecIod == InitIod /\ [][NextIod]_vars

\* SpecCube: the left thumbstick, the left thumbstick button and button A move,
\* and the query may fail
CubeInputs ==
    {InputState(Zero, Zero, [Zero EXCEPT !["Left"] = x], bs) :
        x \in ThumbstickLevels, bs \in {{}, {"LThumb"}, {"A"}}}
    \cup {QueryFailed}

InitCube == InitProgram("initGl") /\ InitObservers /\ scenario = "cube"

NextCube ==
    \/ InitGl
    \/ LoopEnter(MaxFrames)
    \/ PollEvents("none")
    \/ \E in \in CubeInputs : Update(in, {"calibration"})
    \/ Draw({"calibration"})
    \/ FinishFrame

SpecCube == InitCube /\ [][NextCube]_vars

Min(a, b) == IF a <= b THEN a ELSE b

\* C12: after N consecutive updates with the increase target (set_iod = 3),
\* begun at iod = d0 in [-0.3, 0.3], iod is min(d0 + 0.01 * N, 0.3); with the
\* decrease target (set_iod = 2) it is max(d0 - 0.01 * N, -0.3) (thousandths).
C12_IodRampClamped ==
    (upd.n > 0 /\ upd.d0 \in (-IodLimit)..IodLimit) =>
        /\ upd.target = 3 => iod = Min(upd.d0 + IodStep * upd.n, IodLimit)
        /\ upd.target = 2 => iod = Max(upd.d0 - IodStep * upd.n, -IodLimit)

\* C13: iod stays within [-0.3, 0.3] in every reachable state.
C13_IodWithinLimits == iod \in (-IodLimit)..IodLimit

\* C14: whenever an update tests the reset target (set_iod = 4), iod after it
\* is the value recorded at construction (iod_origin), whatever it was before,
\* and the per-eye offsets are minus and plus half of it (hmdToEyeX is held in
\* half-thousandths: -iod_origin and iod_origin).
C14_ResetRestoresOrigin ==
    (upd.n > 0 /\ upd.target = 4) =>
        /\ iod = iod_origin
        /\ hmdToEyeX["Left"] = -iod_origin
        /\ hmdToEyeX["Right"] = iod_origin

\* C14 witness: iod was raised above the device's value and then reset
C14_Witness ==
    /\ pc = "draw"
    /\ upd.target = 4
    /\ upd.n = 1
    /\ upd.d0 >= iod_origin + 3 * IodStep
    /\ iod = iod_origin
    /\ hmdToEyeX["Right"] = iod_origin

\* C15: in every frame with the cube-size mode Shrink (set_Cubesize = 2) or
\* Grow (set_Cubesize = 3) and the scale inside its limits, the draw of that
\* frame advances Scene::cubeSize by exactly one step (times 0.99, times 1.01),
\* whatever button_A is and however many renderScene calls the draw makes.
C15_OneCubeStepPerFrame ==
    [][pc = "draw" =>
          /\ (set_Cubesize = 2 /\ cubeSize > CubeSizeMin)
                => cubeSize' = (cubeSize * 99) \div 100
          /\ (set_Cubesize = 3 /\ cubeSize < CubeSizeMax)
                => cubeSize' = (cubeSize * 101) \div 100]_vars

\* C19: a frame whose input query failed leaves tracking_lag, render_lag, the
\* mode fields (button_A, button_B, button_X, superRotation, set_Cubesize), iod
\* and, once its draw is done, the cube scale as the frame found them.
C19_FailedQueryChangesNothing ==
    (upd.n > 0 /\ ~upd.ok /\ pc \in {"draw", "finish"}) =>
        /\ tracking_lag = upd.before.tracking_lag
        /\ render_lag = upd.before.render_lag
        /\ button_A = upd.before.button_A
        /\ button_B = upd.before.button_B
        /\ button_X = upd.before.button_X
        /\ superRotation = upd.before.superRotation
        /\ set_Cubesize = upd.before.set_Cubesize
        /\ iod = upd.before.iod
        /\ pc = "finish" => cubeSize = upd.before.cubeSize

(***************************************************************************)
(* Render-target layout (SpecLayout): the constructor applied to any       *)
(* per-eye texture sizes                                                   *)
(***************************************************************************)
\* RiftApp::RiftApp 536-558: the layout the for_each_eye loop computes
Construct ==
    /\ pc = "construct"
    /\ pc' = "constructed"
    /\ LET c == Constructed(renderTargetSize, fovTextureSize)
       IN  /\ renderTargetSize' = c.renderTargetSize
           /\ mirrorSize' = c.mirrorSize
           /\ sceneLayerViewport' = c.viewport
    /\ UNCHANGED <<frame, shouldClose, button_A, button_B, button_X, isPressed,
                   isTouched, set_Cubesize, tracking_lag, render_lag, superRotation,
                   eyeProjections, projection_old, left_pos_old, left_pos_new,
                   right_pos_old, right_pos_new, iod, iod_origin, set_iod, count,
                   hmdToEyeX, cubeSize, buffer, fovTextureSize, startup, obsVars>>

InitConstruct == InitProgram("construct") /\ InitObservers /\ scenario = "layout"

NextLayout == Construct

SpecLayout == InitConstruct /\ [][NextLayout]_vars

Keys == {"none", "escape", "R"}

\* SpecRun: device calls of initGl may fail and the framebuffer may be
\* incomplete, keys are pressed, button A moves and the query may fail
RunInputs ==
    {InputState(Zero, Zero, Zero, bs) : bs \in {{}, {"A"}}} \cup {QueryFailed}

InitRun == InitProgram("initGl") /\ InitObservers /\ scenario = "run"

NextRun ==
    \/ InitGl
    \/ LoopEnter(MaxFrames)
    \/ LoopExit
    \/ \E key \in Keys : PollEvents(key)
    \/ \E in \in RunInputs : Update(in, {})
    \/ Draw({})
    \/ FinishFrame

SpecRun == InitRun /\ [][NextRun]_vars

\* C17: when swap-chain creation or mirror-texture creation has failed, or the
\* framebuffer set up at startup is not complete, the start is aborted: the
\* loop is never entered and no frame is drawn or submitted.
C17_StartupFailureAborts ==
    (\/ startup.swapChain = "failure"
     \/ startup.mirrorTexture = "failure"
     \/ startup.framebuffer = "incomplete") =>
        /\ pc = "terminated"
        /\ frame = 0
        /\ calls = <<>>
        /\ submitted.frame = 0

\* C18: the escape key sets the should-close flag during the event poll and
\* the iteration goes on: with the flag set, update, draw (which submits this
\* frame) and finishFrame still run, the loop test that follows leaves the
\* loop, and no further iteration starts (frame never changes again). The
\* flag is tested only at the loop head, once per iteration.
C18_EscapeFinishesFrame ==
    [][ /\ (shouldClose' /\ ~shouldClose) => (pc = "poll" /\ pc' = "update")
        /\ shouldClose =>
              /\ shouldClose'
              /\ frame' = frame
              /\ pc = "update" => pc' = "draw"
              /\ pc = "draw" => (pc' = "finish" /\ submitted'.frame = frame)
              /\ pc = "finish" => pc' = "loop"
              /\ pc = "loop" => pc' = "shutdown"
        /\ pc' = "shutdown" => pc = "loop"
        /\ frame' # frame => (pc = "loop" /\ ~shouldClose /\ frame' = frame + 1) ]_vars

\* C18 witness: escape was pressed in the third iteration, whose frame was
\* drawn and submitted before the loop was left
C18_Witness ==
    /\ pc = "shutdown"
    /\ shouldClose
    /\ frame = 3
    /\ submitted.frame = 3
    /\ Len(calls) = 2

(***************************************************************************)
(* Phase of the render-lag freeze (SpecFreeze)                             *)
(***************************************************************************)
\* C20 as stated: the update of a frame reloads the countdown (count) to
\* render_lag when it is 0 and decreases it by one otherwise; the draw of a
\* frame whose update reloaded it captures the newly sampled eye poses and the
\* current projections and renders with them, and the draw of every other
\* frame renders with the poses and projections stored before.
C20_FreshInReloadFrame ==
    [][ /\ pc = "update" =>
              count' = IF count = 0 THEN render_lag' ELSE count - 1
        /\ (pc = "draw" /\ button_B = 1) =>
              IF reloaded
              THEN /\ left_pos_new' = Sample("Left", frame)
                   /\ right_pos_new' = Sample("Right", frame)
                   /\ projection_old' = eyeProjections
                   /\ \A i \in 1..Len(calls') :
                         /\ calls'[i].headPose = Sample(Eyes[i], frame)
                         /\ calls'[i].projection = eyeProjections[Eyes[i]]
              ELSE /\ left_pos_new' = left_pos_old
                   /\ right_pos_new' = right_pos_old
                   /\ eyeProjections' = projection_old
                   /\ \A i \in 1..Len(calls') :
                         /\ calls'[i].headPose =
                               IF i = 1 THEN left_pos_old ELSE right_pos_old
                         /\ calls'[i].projection = projection_old[Eyes[i]] ]_vars

\* C20 as amended: the update reloads the countdown to render_lag when it is 0
\* and decreases it by one otherwise; the draw of a frame captures and renders
\* with the newly sampled poses and the current projections exactly when the
\* countdown is 0 after that frame's update (it was decreased to 0, or reloaded
\* with render_lag = 0); in every other frame, the one whose update reloaded
\* the countdown to a nonzero render_lag included, it renders with the stored
\* poses and projections. (Default stabilisation mode, button_B = 1.)
C20_FreshWhenCountdownZero ==
    [][ /\ pc = "update" =>
              count' = IF count = 0 THEN render_lag' ELSE count - 1
        /\ (pc = "draw" /\ button_B = 1) =>
              IF count = 0
              THEN /\ left_pos_new' = Sample("Left", frame)
                   /\ right_pos_new' = Sample("Right", frame)
                   /\ projection_old' = eyeProjections
                   /\ \A i \in 1..Len(calls') :
                         /\ calls'[i].headPose = Sample(Eyes[i], frame)
                         /\ calls'[i].projection = eyeProjections[Eyes[i]]
              ELSE /\ left_pos_new' = left_pos_old
                   /\ right_pos_new' = right_pos_old
                   /\ eyeProjections' = projection_old
                   /\ \A i \in 1..Len(calls') :
                         /\ calls'[i].headPose =
                               IF i = 1 THEN left_pos_old ELSE right_pos_old
                         /\ calls'[i].projection = projection_old[Eyes[i]] ]_vars

\* C20 witness: the update of this frame reloaded the countdown to
\* render_lag = 3 and its draw rendered with the poses of the frame before
C20_Witness ==
    /\ pc = "finish"
    /\ reloaded
    /\ render_lag = 3
    /\ count = 3
    /\ frame >= 5
    /\ frz.sinceFresh = 1
    /\ Len(calls) = 2
    /\ calls[1].headPose = Sample("Left", frame - 1)
    /\ calls[2].headPose = Sample("Right", frame - 1)

(***************************************************************************)
(* Stabilisation modes (SpecStab)                                          *)
(***************************************************************************)
\* SpecStab: button B and the right hand trigger (render_lag up) move, and the
\* query may fail
StabInputs ==
    {InputState(Zero, [Zero EXCEPT !["Right"] = t], Zero, bs) :
        t \in {0, 500}, bs \in {{}, {"B"}}}
    \cup {QueryFailed}

InitStab == InitProgram("initGl") /\ InitObservers /\ scenario = "stab"

NextStab ==
    \/ InitGl
    \/ LoopEnter(MaxFrames)
    \/ PollEvents("none")
    \/ \E in \in StabInputs : Update(in, {})
    \/ Draw({})
    \/ FinishFrame

SpecStab == InitStab /\ [][NextStab]_vars

\* C21: a draw made with a stabilisation mode selected renders each eye with
\* the forced component equal to that of the frame before (so, frame after
\* frame, to that of the last frame before the mode was entered), also when the
\* draw takes a fresh sample: the translation with button_B = 2 (rotation-only),
\* the rotation with button_B = 3 (position-only), the whole pose with
\* button_B = 4 (fully frozen). calls: the renderScene calls of the frame
\* before; left_pos_new, right_pos_new: the poses it rendered.
C21_StabilizedComponentConstant ==
    [][(pc = "draw" /\ button_B \in {2, 3, 4}) =>
          /\ button_B \in {2, 4} =>
                /\ left_pos_new'.pos = left_pos_new.pos
                /\ right_pos_new'.pos = right_pos_new.pos
                /\ Len(calls) = 2 =>
                      \A i \in 1..2 : calls'[i].headPose.pos = calls[i].headPose.pos
          /\ button_B \in {3, 4} =>
                /\ left_pos_new'.rot = left_pos_new.rot
                /\ right_pos_new'.rot = right_pos_new.rot
                /\ Len(calls) = 2 =>
                      \A i \in 1..2 : calls'[i].headPose.rot = calls[i].headPose.rot
          /\ left_pos_old' = left_pos_new'
          /\ right_pos_old' = right_pos_new']_vars

\* C21 witness: rotation-only mode was entered in frame 2 and frame 6, which
\* takes a fresh sample, renders the rotation of frame 6 with the translation
\* of frame 1
C21_Witness ==
    /\ pc = "finish"
    /\ button_B = 2
    /\ frame = 6
    /\ render_lag = 1
    /\ count = 0
    /\ Len(calls) = 2
    /\ calls[1].headPose = [rot |-> <<"Left", 6>>, pos |-> <<"Left", 1>>]
    /\ calls[2].headPose = [rot |-> <<"Right", 6>>, pos |-> <<"Right", 1>>]

(***************************************************************************)
(* Frame counter and order of the draw phases (SpecButtons)                *)
(***************************************************************************)
\* The phases of one draw are in the fixed order: the renderScene calls, the
\* left slot before the right slot, then commit, submit, blit, history
PhasesInOrder(ph) ==
    LET n == Len(ph)
    IN  /\ n >= 4
        /\ ph[n - 3].phase = "commit"
        /\ ph[n - 2].phase = "submit"
        /\ ph[n - 1].phase = "blit"
        /\ ph[n].phase = "history"
        /\ \A i \in 1..(n - 4) : ph[i].phase = "renderScene"
        /\ \A i, j \in 1..(n - 4) :
              i < j => ~(ph[i].viewport = "Right" /\ ph[j].viewport = "Left")
        /\ Cardinality({i \in 1..n : ph[i].phase = "submit"}) = 1

\* C22: every loop iteration increments the frame counter once (it changes
\* only when an iteration is entered, by one) and its draw submits once, after
\* the commit that follows all renderScene calls of the iteration (left slot
\* before right slot) and before the blit and the history update; the
\* submission carries the iteration's frame counter, one more than that of the
\* submission before.
C22_SubmitOncePerFrameInOrder ==
    [][/\ frame' # frame => (pc = "loop" /\ pc' = "poll" /\ frame' = frame + 1)
       /\ pc = "loop" /\ pc' = "poll" => frame' = frame + 1
       /\ pc = "draw" =>
             /\ submitted'.frame = frame
             /\ submitted'.frame = submitted.frame + 1
             /\ PhasesInOrder(submitted'.phases)
             /\ Len(submitted'.phases) = Len(calls') + 4
             /\ \A i \in 1..Len(calls') :
                   submitted'.phases[i].viewport = calls'[i].viewport
       /\ submitted' # submitted => pc = "draw"]_vars

\* C22 witness: the seventh iteration has drawn both eyes (swapped mode) and
\* submitted with frame index 7
C22_Witness ==
    /\ pc = "finish"
    /\ frame = 7
    /\ button_A = 5
    /\ submitted.frame = 7
    /\ Len(calls) = 2
    /\ [i \in 1..6 |-> submitted.phases[i].phase]
         = <<"renderScene", "renderScene", "commit", "submit", "blit", "history">>
    /\ submitted.phases[1].viewport = "Left"
    /\ submitted.phases[2].viewport = "Right"

(***************************************************************************)
(* Buttons pressed together, and buttons with the thumbstick centred       *)
(* (SpecPress)                                                             *)
(***************************************************************************)
\* SpecPress: the buttons A, X and the right thumbstick button go down and up
\* in any combination while the right thumbstick is centred or pushed right,
\* and the query may fail
PressInputs ==
    {InputState(Zero, Zero, [Zero EXCEPT !["Right"] = x], bs) :
        x \in {0, 1000}, bs \in SUBSET {"A", "X", "RThumb"}}
    \cup {QueryFailed}

InitPress == InitProgram("initGl") /\ InitObservers /\ scenario = "press"

NextPress ==
    \/ InitGl
    \/ LoopEnter(MaxFrames)
    \/ PollEvents("none")
    \/ \E in \in PressInputs : Update(in, {"input"})
    \/ Draw({"input"})
    \/ FinishFrame

SpecPress == InitPress /\ [][NextPress]_vars

\* C23: an update whose successful query sees a mapped button (A, B, X, Y)
\* down that the successful query of the update before saw up changes that
\* button's mode field by exactly one step, whatever the other buttons do.
\* upd.in: the input of the update before; upd'.in: the input of this update.
C23_EveryPressChangesOnce ==
    [][(pc = "update" /\ upd.in.ok /\ upd'.in.ok) =>
          /\ ("A" \in upd'.in.Buttons /\ "A" \notin upd.in.Buttons) =>
                button_A' = IF button_A = 5 THEN 1 ELSE button_A + 1
          /\ ("B" \in upd'.in.Buttons /\ "B" \notin upd.in.Buttons) =>
                button_B' = IF button_B = 4 THEN 1 ELSE button_B + 1
          /\ ("X" \in upd'.in.Buttons /\ "X" \notin upd.in.Buttons) =>
                button_X' = IF button_X = 4 THEN 1 ELSE button_X + 1
          /\ ("Y" \in upd'.in.Buttons /\ "Y" \notin upd.in.Buttons) =>
                superRotation' = ~superRotation]_vars

\* C26: an update whose successful query sees the right thumbstick centred
\* and the right thumbstick button up leaves iod and the per-eye offsets
\* unchanged, whatever other buttons are down.
C26_CentredStickKeepsIod ==
    [][(/\ pc = "update"
        /\ upd'.in.ok
        /\ upd'.in.ThumbstickX["Right"] = 0
        /\ "RThumb" \notin upd'.in.Buttons) =>
          (iod' = iod /\ hmdToEyeX' = hmdToEyeX)]_vars

(***************************************************************************)
(* Bounds of the freeze countdown (SpecWindow)                             *)
(***************************************************************************)
\* SpecWindow: each hand trigger is released or fully pressed, long enough to
\* take render_lag to its maximum and run a whole countdown from it, and the
\* query may fail
WindowInputs ==
    {InputState(Zero, hnd, Zero, {}) : hnd \in [Hands -> {0, 500}]}
    \cup {QueryFailed}

InitWindow == InitProgram("initGl") /\ InitObservers /\ scenario = "window"

NextWindow ==
    \/ InitGl
    \/ LoopEnter(MaxFrames)
    \/ PollEvents("none")
    \/ \E in \in WindowInputs : Update(in, {"freeze"})
    \/ Draw({"freeze"})
    \/ FinishFrame

SpecWindow == InitWindow /\ [][NextWindow]_vars

\* C24: in every state, so after every update, whatever the triggers did
\* (render_lag lowered in the middle of a countdown included),
\* 0 <= count <= render_lag <= 10; and once 11 draws have been made, the
\* latest 11 draws hold one with freshly sampled poses (frz.sinceFresh is the
\* number of draws made since the latest fresh one).
C24_CountdownWithinRenderLag ==
    /\ count \in 0..render_lag
    /\ render_lag \in 0..RenderLagMax
    /\ (frame > RenderLagMax + 1 \/ (frame = RenderLagMax + 1 /\ pc = "finish"))
          => frz.sinceFresh <= RenderLagMax

\* C24 witness: the update just made lowered render_lag from its maximum 10
\* to 9 in the middle of a countdown, which it decreased from 10 to 9
C24_Witness ==
    /\ pc = "draw"
    /\ ~reloaded
    /\ count = RenderLagMax - 1
    /\ render_lag = RenderLagMax - 1
    /\ frz.lag = RenderLagMax

(***************************************************************************)
(* Stored reference poses and projections (SpecFreeze)                     *)
(***************************************************************************)
\* C25: every renderScene call of every draw, the reusing draws included,
\* gets a projection computed at construction (the left or the right eye's)
\* and a pose sampled from tracking in some frame of the run, never a stored
\* value that nothing was assigned to.
C25_ReusedValuesWereCaptured ==
    \A i \in 1..Len(calls) :
        /\ calls[i].projection \in {"Left", "Right"}
        /\ \E e \in {"Left", "Right"} : \E f \in 1..frame :
              calls[i].headPose = Sample(e, f)

=============================================================================
